---- MODULE Spec2Model ----
(***************************************************************************)
(* Model of fedimint-api/src/tiered_multi.rs: TieredMulti<T>, a BTreeMap   *)
(* from Amount (the tier) to a Vec of items, with select_coins,            *)
(* represent_amount, check_tiers, structural_eq, map, and the              *)
(* TieredMultiZip iterator.                                                *)
(*                                                                         *)
(* A TieredMulti is a function whose DOMAIN is its set of tier keys and    *)
(* whose values are sequences; BTreeMap iteration is ascending key order.  *)
(* A Tiered<K> catalog is modelled by its set of keys (only get(..) and    *)
(* tiers() are used by this file).  Amounts are natural numbers far below  *)
(* 2^64, and tiers are positive amounts.                                   *)
(***************************************************************************)
EXTENDS Naturals, Sequences, FiniteSets

VARIABLES
  wallet,             \* the TieredMulti under test (self / current_denominations)
  peer,               \* a second TieredMulti (structural_eq's `other`)
  catalog,            \* the keys of the Tiered<K> catalog
  call,               \* the last call made on `wallet` and what it returned
  represent,          \* represent_amount: the argument `amount`
  sets,               \* represent_amount: the argument `denomination_sets`
  remaining_amount,   \* represent_amount: local
  denominations,      \* represent_amount: local, the Tiered<usize> returned
  pc,                 \* represent_amount: position
  shares,             \* the collections whose item iterators are zipped
  iters,              \* TieredMultiZip.iters: what each iterator has left
  yielded,            \* the items the TieredMultiZip has yielded so far
  zip                 \* TieredMultiZip: its state and the last return of next

vars == <<wallet, peer, catalog, call, represent, sets, remaining_amount,
          denominations, pc, shares, iters, yielded, zip>>

collVars == <<wallet, peer, catalog, call>>
reprVars == <<represent, sets, remaining_amount, denominations, pc>>
zipVars == <<shares, iters, yielded, zip>>

\* ---- bounds of the model ----
MaxTier == 3
MaxLen == 2
MaxAmount == 6
MaxSets == 2
MaxPeers == 2

Tiers == 1..MaxTier

\* the tiers of the catalog of test::represent_amount_targets_denomination_sets
TestTiers == {1, 2, 3, 4}

\* ---- Option / panic values ----
None == [kind |-> "None"]
Some(v) == [kind |-> "Some", val |-> v]
Panic == [kind |-> "panic"]
NoCall == [op |-> "none"]

\* ---- BTreeMap helpers ----
RECURSIVE SortedSeq(_)
SortedSeq(S) ==
  IF S = {} THEN <<>>
  ELSE LET m == CHOOSE x \in S : \A y \in S : x <= y
       IN <<m>> \o SortedSeq(S \ {m})

\* self.0.map_keys(): ascending
map_keys(self) == SortedSeq(DOMAIN self)

\* self.0.map_values(): in ascending key order
map_values(self) == [i \in 1..Len(map_keys(self)) |-> self[map_keys(self)[i]]]

RECURSIVE Sum(_)
Sum(s) == IF s = <<>> THEN 0 ELSE Head(s) + Sum(Tail(s))

RECURSIVE Concat(_)
Concat(ss) == IF ss = <<>> THEN <<>> ELSE Head(ss) \o Concat(Tail(ss))

Rev(s) == [i \in 1..Len(s) |-> s[Len(s) + 1 - i]]

\* TieredMulti::default
default == <<>>

\* TieredMulti::total_amount
total_amount(self) ==
  Sum([i \in 1..Len(map_keys(self)) |-> map_keys(self)[i] * Len(self[map_keys(self)[i]])])

\* TieredMulti::item_count
item_count(self) ==
  Sum([i \in 1..Len(map_keys(self)) |-> Len(self[map_keys(self)[i]])])

\* TieredMulti::iter_items: lowest tier to highest, then Vec order
iter_items(self) ==
  Concat([i \in 1..Len(map_keys(self)) |->
            [j \in 1..Len(self[map_keys(self)[i]]) |->
               <<map_keys(self)[i], self[map_keys(self)[i]][j]>>]])

\* self.0.entry(amount).or_default().push(coin)
push(self, amount, coin) ==
  IF amount \in DOMAIN self
  THEN [self EXCEPT ![amount] = Append(@, coin)]
  ELSE [t \in DOMAIN self \cup {amount} |->
          IF t = amount THEN <<coin>> ELSE self[t]]

\* Extend::extend
RECURSIVE extend(_, _)
extend(self, iter) ==
  IF iter = <<>> THEN self
  ELSE extend(push(self, Head(iter)[1], Head(iter)[2]), Tail(iter))

\* FromIterator::from_iter
from_iter(iter) == extend(default, iter)

\* ---- select_coins ----
\* select_filter with a slip: an item is dropped only when strictly more than
\* `amount` stays available
RECURSIVE select_filter_strict(_, _, _)
select_filter_strict(items, amount, remaining) ==
  IF items = <<>> THEN [panicked |-> FALSE, kept |-> <<>>]
  ELSE LET coin_amount == Head(items)[1] IN
    IF coin_amount > remaining THEN [panicked |-> TRUE, kept |-> <<>>]
    ELSE IF amount < remaining - coin_amount
    THEN select_filter_strict(Tail(items), amount, remaining - coin_amount)
    ELSE LET rest == select_filter_strict(Tail(items), amount, remaining)
         IN [panicked |-> rest.panicked, kept |-> <<Head(items)>> \o rest.kept]

\* the filter_map closure of select_coins, run over the reversed items with
\* its captured `remaining`; Amount subtraction below zero is a panic
RECURSIVE select_filter(_, _, _)
select_filter(items, amount, remaining) ==
  IF items = <<>> THEN [panicked |-> FALSE, kept |-> <<>>]
  ELSE LET coin_amount == Head(items)[1] IN
    IF coin_amount > remaining THEN [panicked |-> TRUE, kept |-> <<>>]
    ELSE IF amount <= remaining - coin_amount
    THEN select_filter(Tail(items), amount, remaining - coin_amount)
    ELSE LET rest == select_filter(Tail(items), amount, remaining)
         IN [panicked |-> rest.panicked, kept |-> <<Head(items)>> \o rest.kept]

\* select_coins with a slip: the sufficiency test is off by one
select_coins_off_by_one(self, amount) ==
  IF amount >= total_amount(self) THEN None
  ELSE LET r == select_filter(Rev(iter_items(self)), amount, total_amount(self))
       IN IF r.panicked THEN Panic ELSE Some(from_iter(r.kept))

\* TieredMulti::select_coins
select_coins(self, amount) ==
  IF amount > total_amount(self) THEN None
  ELSE LET r == select_filter(Rev(iter_items(self)), amount, total_amount(self))
       IN IF r.panicked THEN Panic ELSE Some(from_iter(r.kept))

\* ---- check_tiers, structural_eq, map ----
Ok(v) == [kind |-> "Ok", val |-> v]
Err(e) == [kind |-> "Err", err |-> e]

\* Iterator::find over a sequence: the first element satisfying the test
RECURSIVE find_absent(_, _)
find_absent(ks, keys) ==
  IF ks = <<>> THEN None
  ELSE IF Head(ks) \notin keys THEN Some(Head(ks))
  ELSE find_absent(Tail(ks), keys)

\* check_tiers with a slip: tiers holding no item are not looked up
check_tiers_skips_empty(self, keys) ==
  LET found == find_absent(SelectSeq(map_keys(self), LAMBDA t : self[t] # <<>>), keys)
  IN IF found = None THEN Ok(<<>>) ELSE Err(found.val)

\* TieredMulti::check_tiers; `keys` is the key set of the Tiered<K>
check_tiers(self, keys) ==
  LET found == find_absent(map_keys(self), keys)
  IN IF found = None THEN Ok(<<>>) ELSE Err(found.val)

\* Iterator::eq on two key sequences
iter_eq(s1, s2) == Len(s1) = Len(s2) /\ \A i \in 1..Len(s1) : s1[i] = s2[i]

Min(a, b) == IF a <= b THEN a ELSE b

\* structural_eq with a slip: the tier keys are not compared
structural_eq_no_tier_eq(self, other) ==
  \A i \in 1..Min(Len(map_values(self)), Len(map_values(other))) :
     Len(map_values(self)[i]) = Len(map_values(other)[i])

\* TieredMulti::structural_eq; zip stops at the shorter of the two
structural_eq(self, other) ==
  LET tier_eq == iter_eq(map_keys(self), map_keys(other))
      per_tier_eq ==
        \A i \in 1..Min(Len(map_values(self)), Len(map_values(other))) :
           Len(map_values(self)[i]) = Len(map_values(other)[i])
  IN tier_eq /\ per_tier_eq

\* the item transformations handed to map: "blind" wraps the item, "unit"
\* forgets it, "reject_top" fails on the items of the highest tier
Transformations == {"blind", "unit", "reject_top"}

apply(f, amt, coin) ==
  CASE f = "blind" -> Ok(<<"blinded", coin>>)
    [] f = "unit" -> Ok("unit")
    [] f = "reject_top" -> IF amt = MaxTier THEN Err(<<"rejected", coin>>) ELSE Ok(coin)

\* collect::<Result<Vec<_>, E>>() over one tier's coins: the first error wins
RECURSIVE collect_vec(_, _, _)
collect_vec(f, amt, cs) ==
  IF cs = <<>> THEN Ok(<<>>)
  ELSE LET r == apply(f, amt, Head(cs)) IN
    IF r.kind = "Err" THEN r
    ELSE LET rest == collect_vec(f, amt, Tail(cs)) IN
      IF rest.kind = "Err" THEN rest ELSE Ok(<<r.val>> \o rest.val)

\* collect::<Result<BTreeMap<..>, E>>() over the tiers in ascending order
RECURSIVE collect_map(_, _, _)
collect_map(f, self, ks) ==
  IF ks = <<>> THEN Ok(<<>>)
  ELSE LET r == collect_vec(f, Head(ks), self[Head(ks)]) IN
    IF r.kind = "Err" THEN r
    ELSE LET rest == collect_map(f, self, Tail(ks)) IN
      IF rest.kind = "Err" THEN rest
      ELSE Ok([t \in {Head(ks)} \cup DOMAIN rest.val |->
                 IF t = Head(ks) THEN r.val ELSE rest.val[t]])

\* TieredMulti::map
map(self, f) == collect_map(f, self, map_keys(self))

\* ---- represent_amount ----
\* (u64).saturating_sub
saturating_sub(a, b) == IF a > b THEN a - b ELSE 0

\* *denominations.get_mut_or_default(tier) = v
set_count(denoms, tier, v) ==
  [t \in DOMAIN denoms \cup {tier} |-> IF t = tier THEN v ELSE denoms[t]]

\* *denominations.get_mut_or_default(tier): 0 when the tier had no entry
get_or_default(denoms, tier) == IF tier \in DOMAIN denoms THEN denoms[tier] ELSE 0

\* the locals of represent_amount
Locals(remaining, denoms) == [remaining_amount |-> remaining, denominations |-> denoms]

\* fill_sets with a slip: the amount spent on a tier is not taken off
RECURSIVE fill_sets_keeps_amount(_, _, _, _, _)
fill_sets_keeps_amount(ts, current_denominations, denomination_sets, remaining, denoms) ==
  IF ts = <<>> THEN Locals(remaining, denoms)
  ELSE LET tier == Head(ts)
           notes == IF tier \in DOMAIN current_denominations
                    THEN Len(current_denominations[tier]) ELSE 0
           missing_notes == saturating_sub(denomination_sets, notes)
           possible_notes == remaining \div tier
           add_notes == Min(possible_notes, missing_notes)
       IN fill_sets_keeps_amount(Tail(ts), current_denominations, denomination_sets,
                                 remaining, set_count(denoms, tier, add_notes))

\* fill_sets with a slip: the operands of saturating_sub are swapped
RECURSIVE fill_sets_swapped(_, _, _, _, _)
fill_sets_swapped(ts, current_denominations, denomination_sets, remaining, denoms) ==
  IF ts = <<>> THEN Locals(remaining, denoms)
  ELSE LET tier == Head(ts)
           notes == IF tier \in DOMAIN current_denominations
                    THEN Len(current_denominations[tier]) ELSE 0
           missing_notes == saturating_sub(notes, denomination_sets)
           possible_notes == remaining \div tier
           add_notes == Min(possible_notes, missing_notes)
       IN fill_sets_swapped(Tail(ts), current_denominations, denomination_sets,
                            remaining - tier * add_notes,
                            set_count(denoms, tier, add_notes))

\* the first loop of represent_amount ("try to hit the target
\* denomination_sets"), over the catalog's tiers in ascending order
RECURSIVE fill_sets(_, _, _, _, _)
fill_sets(ts, current_denominations, denomination_sets, remaining, denoms) ==
  IF ts = <<>> THEN Locals(remaining, denoms)
  ELSE LET tier == Head(ts)
           notes == IF tier \in DOMAIN current_denominations
                    THEN Len(current_denominations[tier]) ELSE 0
           missing_notes == saturating_sub(denomination_sets, notes)
           possible_notes == remaining \div tier
           add_notes == Min(possible_notes, missing_notes)
       IN fill_sets(Tail(ts), current_denominations, denomination_sets,
                    remaining - tier * add_notes,
                    set_count(denoms, tier, add_notes))

\* greedy with a slip: the notes added are taken off uncounted by their tier
RECURSIVE greedy_subtracts_count(_, _, _)
greedy_subtracts_count(ts, remaining, denoms) ==
  IF ts = <<>> THEN Locals(remaining, denoms)
  ELSE LET tier == Head(ts)
           res == remaining \div tier
       IN greedy_subtracts_count(Tail(ts), remaining - res,
                 set_count(denoms, tier, get_or_default(denoms, tier) + res))

\* the second loop of represent_amount ("add denominations with a greedy
\* algorithm"), over the catalog's tiers in descending order
RECURSIVE greedy(_, _, _)
greedy(ts, remaining, denoms) ==
  IF ts = <<>> THEN Locals(remaining, denoms)
  ELSE LET tier == Head(ts)
           res == remaining \div tier
       IN greedy(Tail(ts), remaining % tier,
                 set_count(denoms, tier, get_or_default(denoms, tier) + res))

\* denominations.iter().map(|(k, v)| k.msats * v).sum()
represented(denoms) ==
  Sum([i \in 1..Len(SortedSeq(DOMAIN denoms)) |->
         SortedSeq(DOMAIN denoms)[i] * denoms[SortedSeq(DOMAIN denoms)[i]]])

\* ---- TieredMultiZip ----
\* zip_loop with a slip: the coin pulled is put in front of the group
RECURSIVE zip_loop_prepends(_, _, _, _)
zip_loop_prepends(its, i, group, amount) ==
  IF i > Len(its)
  THEN [iters |-> its,
        ret |-> IF Len(group) # Len(its) \/ amount = None THEN Panic
                ELSE Some(<<amount.val, group>>)]
  ELSE IF its[i] = <<>> THEN [iters |-> its, ret |-> None]
  ELSE LET amt == Head(its[i])[1]
           coin == Head(its[i])[2]
           pulled == [its EXCEPT ![i] = Tail(@)]
       IN IF amount # None /\ amount.val # amt
          THEN [iters |-> pulled, ret |-> Panic]
          ELSE zip_loop_prepends(pulled, i + 1, <<coin>> \o group, Some(amt))

\* the body of TieredMultiZip::next from its i-th iterator on: each iterator
\* is advanced in turn; the first exhausted one returns None, a tier that
\* differs from the first one pulled fails assert_eq!; after the loop the
\* group's length is asserted and the amount is expected to be set
RECURSIVE zip_loop(_, _, _, _)
zip_loop(its, i, group, amount) ==
  IF i > Len(its)
  THEN [iters |-> its,
        ret |-> IF Len(group) # Len(its) \/ amount = None THEN Panic
                ELSE Some(<<amount.val, group>>)]
  ELSE IF its[i] = <<>> THEN [iters |-> its, ret |-> None]
  ELSE LET amt == Head(its[i])[1]
           coin == Head(its[i])[2]
           pulled == [its EXCEPT ![i] = Tail(@)]
       IN IF amount # None /\ amount.val # amt
          THEN [iters |-> pulled, ret |-> Panic]
          ELSE zip_loop(pulled, i + 1, Append(group, coin), Some(amt))

\* TieredMultiZip::next: the iterators as it leaves them, and what it returns
zip_next(its) == zip_loop(its, 1, <<>>, None)

\* ---- the collections the operations are applied to ----
\* per-tier item counts: every set of tier keys over T, and at each key a
\* count from 0 (a key with an empty Vec) to MaxLen
Shapes(T) == UNION {[D -> 0..MaxLen] : D \in SUBSET T}

\* the map with that many items per tier; items are opaque and distinct: the
\* j-th item of tier t of owner `who` is <<who, t, j>>
Notes(who, shape) ==
  [t \in DOMAIN shape |-> [j \in 1..shape[t] |-> <<who, t, j>>]]

\* TieredMulti::new
new(m) == m

\* the variables an operation under check does not use
IdleColl == peer = default /\ catalog = {} /\ call = NoCall
IdleRepr ==
  /\ represent = 0 /\ sets = 0 /\ remaining_amount = 0
  /\ denominations = <<>> /\ pc = "idle"
NoZip == [state |-> "none", ret |-> [kind |-> "none"]]
IdleZip == shares = <<>> /\ iters = <<>> /\ yielded = <<>> /\ zip = NoZip

\* a call of select_coins on the collection
SelectCoins(target) ==
  /\ call.op = "none"
  /\ call' = [op |-> "select_coins", amount |-> target,
              ret |-> select_coins(wallet, target)]
  /\ UNCHANGED <<wallet, peer, catalog, reprVars, zipVars>>

InitSelect ==
  /\ \E shape \in Shapes(Tiers) : wallet = new(Notes("c", shape))
  /\ IdleColl /\ IdleRepr /\ IdleZip

NextSelect ==
  \E target \in 0..(total_amount(wallet) + 1) : SelectCoins(target)

SpecSelect == InitSelect /\ [][NextSelect]_vars

\* a call of check_tiers on the collection
CheckTiers ==
  /\ call.op = "none"
  /\ call' = [op |-> "check_tiers", ret |-> check_tiers(wallet, catalog)]
  /\ UNCHANGED <<wallet, peer, catalog, reprVars, zipVars>>

InitCheckTiers ==
  /\ \E shape \in Shapes(Tiers) : wallet = new(Notes("c", shape))
  /\ catalog \in SUBSET Tiers
  /\ peer = default /\ call = NoCall
  /\ IdleRepr /\ IdleZip

NextCheckTiers == CheckTiers

SpecCheckTiers == InitCheckTiers /\ [][NextCheckTiers]_vars

\* represent_amount up to the end of its first loop
RepresentFill ==
  /\ pc = "fill"
  /\ LET l == fill_sets(SortedSeq(catalog), wallet, sets, remaining_amount, denominations)
     IN /\ remaining_amount' = l.remaining_amount
        /\ denominations' = l.denominations
  /\ pc' = "greedy"
  /\ UNCHANGED <<collVars, represent, sets, zipVars>>

\* represent_amount from its second loop to its end: the assert_eq! on the
\* represented amount either passes and the denominations are returned, or
\* panics
RepresentGreedy ==
  /\ pc = "greedy"
  /\ LET l == greedy(Rev(SortedSeq(catalog)), remaining_amount, denominations)
     IN /\ remaining_amount' = l.remaining_amount
        /\ denominations' = l.denominations
        /\ pc' = IF represented(l.denominations) = represent THEN "returned" ELSE "panic"
  /\ UNCHANGED <<collVars, represent, sets, zipVars>>

\* represent_amount is entered with any amount, holdings, catalog and
\* denomination_sets; its locals are initialised
InitRepresent ==
  /\ \E shape \in Shapes(TestTiers) : wallet = new(Notes("h", shape))
  /\ catalog \in SUBSET TestTiers
  /\ represent \in 0..MaxAmount
  /\ sets \in 0..MaxSets
  /\ remaining_amount = represent
  /\ denominations = <<>>
  /\ pc = "fill"
  /\ peer = default /\ call = NoCall
  /\ IdleZip

NextRepresent == RepresentFill \/ RepresentGreedy

SpecRepresent == InitRepresent /\ [][NextRepresent]_vars

\* the two tiers the pairs of collections are built over
PairTiers == {1, MaxTier}

\* TieredMultiZip::new over the item iterators of the shares: fails its
\* assert! when there is none
ZipNew ==
  /\ zip.state = "none"
  /\ IF shares = <<>>
     THEN zip' = [state |-> "panic", ret |-> Panic] /\ UNCHANGED iters
     ELSE /\ iters' = [p \in 1..Len(shares) |-> iter_items(shares[p])]
          /\ zip' = [state |-> "iter", ret |-> [kind |-> "none"]]
  /\ UNCHANGED <<collVars, reprVars, shares, yielded>>

\* one call of TieredMultiZip::next
ZipNext ==
  /\ zip.state = "iter"
  /\ LET r == zip_next(iters)
     IN /\ iters' = r.iters
        /\ zip' = [state |-> IF r.ret = Panic THEN "panic" ELSE "iter", ret |-> r.ret]
        /\ yielded' = IF r.ret.kind = "Some" THEN Append(yielded, r.ret.val) ELSE yielded
  /\ UNCHANGED <<collVars, reprVars, shares>>

\* up to MaxPeers shares, of any shapes: the caller may or may not have
\* checked them for structural equality
InitZip ==
  /\ \E n \in 0..MaxPeers : \E shapes \in [1..n -> Shapes(PairTiers)] :
       shares = [p \in 1..n |-> new(Notes(p, shapes[p]))]
  /\ iters = <<>> /\ yielded = <<>> /\ zip = NoZip
  /\ wallet = default /\ IdleColl /\ IdleRepr

NextZip == ZipNew \/ ZipNext

SpecZip == InitZip /\ [][NextZip]_vars

\* a call of structural_eq between the two collections, either way round or
\* of one with itself
StructuralEq(lhs, rhs) ==
  /\ call.op = "none"
  /\ call' = [op |-> "structural_eq", self |-> lhs, other |-> rhs,
              ret |-> structural_eq(lhs, rhs)]
  /\ UNCHANGED <<wallet, peer, catalog, reprVars, zipVars>>

\* a call of map on the collection
Map(f) ==
  /\ call.op = "none"
  /\ call' = [op |-> "map", f |-> f, ret |-> map(wallet, f)]
  /\ UNCHANGED <<wallet, peer, catalog, reprVars, zipVars>>

InitStructural ==
  /\ \E shape \in Shapes(PairTiers) : wallet = new(Notes("c", shape))
  /\ \E shape \in Shapes(PairTiers) : peer = new(Notes("o", shape))
  /\ catalog = {} /\ call = NoCall
  /\ IdleRepr /\ IdleZip

NextStructural ==
  \/ \E lhs \in {wallet, peer}, rhs \in {wallet, peer} : StructuralEq(lhs, rhs)
  \/ \E f \in Transformations : Map(f)

SpecStructural == InitStructural /\ [][NextStructural]_vars

\* ---- what the claims speak of, stated without the code's iteration ----
RECURSIVE SumOver(_, _)
SumOver(S, f) ==
  IF S = {} THEN 0
  ELSE LET t == CHOOSE x \in S : TRUE IN f[t] + SumOver(S \ {t}, f)

\* total amount of a collection: sum over its tiers of tier * count
TotalValue(C) == SumOver(DOMAIN C, [t \in DOMAIN C |-> t * Len(C[t])])

\* the per-tier counts of the sub-collections of C
SubCounts(C) ==
  {n \in [DOMAIN C -> 0..item_count(C)] : \A t \in DOMAIN C : n[t] <= Len(C[t])}

\* some sub-collection of C has total amount exactly `amount`
ExactlyPayable(C, amount) ==
  \E n \in SubCounts(C) : SumOver(DOMAIN C, [t \in DOMAIN C |-> t * n[t]]) = amount

Selected == call.op = "select_coins"

\* C1: select_coins returns None exactly when the target exceeds the total
\* amount of the collection; otherwise it returns (without panicking) a
\* collection whose total amount is at least the target.
C1_SelectNoneIffTooLarge ==
  Selected =>
    /\ call.ret = None <=> call.amount > TotalValue(wallet)
    /\ call.ret # None =>
         /\ call.ret.kind = "Some"
         /\ TotalValue(call.ret.val) >= call.amount

\* C1 witness: a selection over two tiers that had to overshoot its target
C1_Witness ==
  /\ Selected
  /\ Cardinality(DOMAIN wallet) >= 2
  /\ call.amount > 0
  /\ call.ret.kind = "Some"
  /\ TotalValue(call.ret.val) > call.amount

\* C5 (as claimed): whenever some sub-collection sums exactly to the target,
\* the total returned by select_coins equals the target.
C5_ExactWheneverPayable ==
  (Selected /\ call.ret.kind = "Some" /\ ExactlyPayable(wallet, call.amount))
    => TotalValue(call.ret.val) = call.amount

\* C10: for 0 < target <= total the result of select_coins is a minimal
\* sufficient sub-collection: no more items than the source at any tier, no
\* tier with an empty sequence, and removing any one item leaves less than
\* the target; for target 0 the result has no tiers.
C10_SelectMinimal ==
  (Selected /\ call.amount <= TotalValue(wallet)) =>
    /\ call.ret.kind = "Some"
    /\ \A t \in DOMAIN call.ret.val :
         /\ t \in DOMAIN wallet
         /\ Len(call.ret.val[t]) > 0
         /\ Len(call.ret.val[t]) <= Len(wallet[t])
         /\ \A j \in 1..Len(call.ret.val[t]) :
              \E i \in 1..Len(wallet[t]) : call.ret.val[t][j] = wallet[t][i]
         /\ TotalValue(call.ret.val) - t < call.amount
    /\ call.amount = 0 => call.ret.val = default

\* C10 witness: a non-empty selection for a positive target from a source
\* that holds an empty tier and more than was selected
C10_Witness ==
  /\ Selected
  /\ call.amount > 0
  /\ call.ret.kind = "Some"
  /\ \E t \in DOMAIN wallet : wallet[t] = <<>>
  /\ TotalValue(call.ret.val) < TotalValue(wallet)
  /\ Cardinality(DOMAIN call.ret.val) >= 2

\* C6: check_tiers succeeds exactly when every tier key of the collection
\* (keys mapped to an empty Vec included) is in the catalog; when it fails
\* the error carries the lowest tier key of the collection absent from it.
C6_CheckTiersFirstAbsent ==
  call.op = "check_tiers" =>
    /\ call.ret.kind = "Ok" <=> DOMAIN wallet \subseteq catalog
    /\ call.ret.kind = "Err" =>
         /\ call.ret.err \in DOMAIN wallet \ catalog
         /\ \A t \in DOMAIN wallet \ catalog : call.ret.err <= t

\* C6 witness: two tiers are absent from the catalog, the lower one holds no
\* item, and it is the one reported
C6_Witness ==
  /\ call.op = "check_tiers"
  /\ call.ret.kind = "Err"
  /\ wallet[call.ret.err] = <<>>
  /\ \E t \in DOMAIN wallet \ catalog : t > call.ret.err
  /\ \E t \in DOMAIN wallet \cap catalog : t < call.ret.err

\* same tier keys and the same item count at every tier
SameShape(A, B) ==
  /\ DOMAIN A = DOMAIN B
  /\ \A t \in DOMAIN A : Len(A[t]) = Len(B[t])

\* C7: structural_eq(A, B) is true exactly when A and B have the same tier
\* keys and the same item count at every tier, whatever the items; so it is
\* reflexive and symmetric, and C.map(f) is structurally equal to C for every
\* transformation f that does not fail.
C7_StructuralEqIsSameShape ==
  /\ call.op = "structural_eq" =>
       /\ call.ret <=> SameShape(call.self, call.other)
       /\ call.ret <=> structural_eq(call.other, call.self)
       /\ call.self = call.other => call.ret
  /\ (call.op = "map" /\ call.ret.kind = "Ok") =>
       /\ structural_eq(call.ret.val, wallet)
       /\ structural_eq(wallet, call.ret.val)
       /\ SameShape(call.ret.val, wallet)

\* C7 witness: two collections with different items found structurally equal
C7_Witness ==
  /\ call.op = "structural_eq"
  /\ call.ret
  /\ call.self # call.other
  /\ Cardinality(DOMAIN call.self) = 2
  /\ \E t \in DOMAIN call.self : call.self[t] = <<>>
  /\ \E t \in DOMAIN call.self : Len(call.self[t]) = MaxLen

\* ---- represent_amount ----
Exited == pc \in {"returned", "panic"}

\* sum over the tiers of tier * count
DenominationsValue(denoms) ==
  SumOver(DOMAIN denoms, [t \in DOMAIN denoms |-> t * denoms[t]])

\* the number of notes held at a tier
Held(t) == IF t \in DOMAIN wallet THEN Len(wallet[t]) ELSE 0

\* the notes a tier is short of the target set count
Short(t) == IF sets > Held(t) THEN sets - Held(t) ELSE 0

\* C2: when the catalog contains the tier of value 1, represent_amount
\* returns, without failing its assert_eq!, per-tier counts whose sum of
\* tier * count is exactly the amount.
C2_RepresentExactWithUnitTier ==
  (Exited /\ 1 \in catalog) =>
    /\ pc = "returned"
    /\ DenominationsValue(denominations) = represent

\* C2 witness: an amount represented over several tiers, some notes added to
\* fill the sets and some by the greedy loop
C2_Witness ==
  /\ pc = "returned"
  /\ 1 \in catalog
  /\ represent = MaxAmount
  /\ sets = 1
  /\ Held(1) = 0 /\ denominations[1] = 1
  /\ \E t \in catalog : t > 1 /\ denominations[t] > Short(t)

\* the smallest tier of the catalog
SmallestTier == CHOOSE t \in catalog : \A u \in catalog : t <= u

\* C8 (as claimed): whenever the amount left after the first loop is evenly
\* divisible by the smallest tier of the catalog, the greedy loop ends with
\* nothing remaining and the assert_eq! passes.
C8_GreedyExhaustsDivisibleRest ==
  [][(pc = "greedy" /\ catalog # {} /\ remaining_amount % SmallestTier = 0)
       => (pc' = "returned" /\ remaining_amount' = 0)]_vars

\* C8 (amended): whenever the amount left after the first loop and every
\* tier of the catalog are evenly divisible by the smallest tier of the
\* catalog, the greedy loop ends with nothing remaining and the assert_eq!
\* passes.
C8_GreedyExhaustsWhenSmallestDividesAll ==
  [][(/\ pc = "greedy" /\ catalog # {}
      /\ remaining_amount % SmallestTier = 0
      /\ \A t \in catalog : t % SmallestTier = 0)
       => (pc' = "returned" /\ remaining_amount' = 0
           /\ DenominationsValue(denominations') = represent)]_vars

\* C8 witness: a catalog without the tier 1 whose smallest tier divides the
\* other one and the amount; the greedy loop had an amount left to spend on
\* both tiers and returned
C8_Witness ==
  /\ pc = "returned"
  /\ catalog = {2, 4}
  /\ represent = 6
  /\ sets = 0
  /\ remaining_amount = 0
  /\ denominations = [t \in {2, 4} |-> 1]

\* C9: when the catalog contains the tier 1, the result has an entry for
\* every tier of the catalog, and if the amount covers what every tier is
\* short of the set count, then at every tier the notes held plus the notes
\* returned are at least the set count.
C9_SetsFilledWhenAffordable ==
  (Exited /\ 1 \in catalog) =>
    /\ DOMAIN denominations = catalog
    /\ represent >= SumOver(catalog, [t \in catalog |-> t * Short(t)]) =>
         \A t \in catalog : Held(t) + denominations[t] >= sets

\* C9 witness: two sets wanted, one tier partly stocked, one not at all, and
\* an amount that covers the shortfall with some left for the greedy loop
C9_Witness ==
  /\ pc = "returned"
  /\ 1 \in catalog
  /\ sets = 2
  /\ \E t \in catalog : Held(t) = 1
  /\ \E t \in catalog : Held(t) = 0
  /\ represent > SumOver(catalog, [t \in catalog |-> t * Short(t)])
  /\ \A t \in catalog : Held(t) + denominations[t] >= sets

\* ---- TieredMultiZip ----
\* the inputs come from structurally equal collections
SharesStructurallyEqual ==
  \A p \in 1..Len(shares), q \in 1..Len(shares) : SameShape(shares[p], shares[q])

\* the k-th element of the p-th input
Input(p, k) == iter_items(shares[p])[k]

\* C3: over N >= 1 inputs taken from structurally equal collections, each
\* of length L, the TieredMultiZip yields exactly L steps and then ends;
\* step k carries the tier of the k-th element of every input and the k-th
\* item of each input, in the order of the inputs.
C3_ZipYieldsAlignedGroups ==
  (zip.state # "none" /\ Len(shares) >= 1 /\ SharesStructurallyEqual) =>
    /\ zip.state = "iter"
    /\ Len(yielded) <= item_count(shares[1])
    /\ \A k \in 1..Len(yielded) :
         /\ \A p \in 1..Len(shares) : yielded[k][1] = Input(p, k)[1]
         /\ yielded[k][2] = [p \in 1..Len(shares) |-> Input(p, k)[2]]
    /\ zip.ret = None => Len(yielded) = item_count(shares[1])
    /\ zip.ret.kind = "Some" => zip.ret.val = yielded[Len(yielded)]

\* C3 witness: two structurally equal shares over two tiers, zipped to the
\* end
C3_Witness ==
  /\ zip.state = "iter"
  /\ zip.ret = None
  /\ Len(shares) = 2
  /\ SharesStructurallyEqual
  /\ Cardinality(DOMAIN shares[1]) = 2
  /\ Len(yielded) = 2 * MaxLen

\* some input has no next element while another still has one
Ragged == \E p, q \in 1..Len(iters) : iters[p] = <<>> /\ iters[q] # <<>>

\* C4 (as claimed): an advance made while some input is exhausted and
\* another is not is a fatal abort: it neither ends the sequence nor yields.
C4_RaggedAdvanceAborts ==
  [][(zip.state = "iter" /\ Ragged) => zip'.state = "panic"]_vars

====
